---------------------------- MODULE Spec2Model ----------------------------
(***************************************************************************)
(* Network Radar: the probe engine and status derivation (agent.py and     *)
(* app.py), the agent's reporter with bounded retry (agent.py send_batch,  *)
(* main_loop), and the collector's ingest endpoint, Store (the sqlite      *)
(* table `checks`), its queries and the retention sweep (app.py).          *)
(*                                                                         *)
(* The specifications share the variables:                                 *)
(*   Spec       the Store: insert_check calls, the queries, the sweep      *)
(*   SpecIngest the collector's handler of POST /api/ingest                *)
(*   SpecAgent  the agent's main loop: one cycle, then send_batch          *)
(*   SpecProbe  one target probed by run_target (agent) and check_target   *)
(*              (standalone collector)                                     *)
(*   SpecRunCycle  one run_cycle of the agent: the tasks, the semaphore    *)
(*   SpecRunChecks the standalone collector's cycles: main's initial       *)
(*              run_checks and the monitoring thread's                     *)
(*   SpecDb     the threads that use the Store, each behind DB_LOCK        *)
(*   SpecQuery  the Store as the queries by timestamp meet it              *)
(*   SpecRunCycleFair  run_cycle on a running event loop (termination)     *)
(*   SpecMainLoop  the agent's main loop over run_cycle and send_batch     *)
(*   SpecPersist   the standalone cycles while insert_check may fail       *)
(*   SpecHours  GET /api/status with any `hours` parameter                 *)
(*   SpecStatus GET /api/status beside inserts and the retention sweep     *)
(*                                                                         *)
(* Units.  A latency is an integer number of thousandths of a millisecond, *)
(* latency_ms (rounded to 2 decimals) a number of hundredths.  A point in  *)
(* time is a number of half seconds; a timestamp is the text that          *)
(* datetime.isoformat() gives for it, a sequence of character codes, and   *)
(* the Store compares timestamps as sqlite compares TEXT: code by code.    *)
(***************************************************************************)
EXTENDS Integers, Sequences, FiniteSets, TLC

VARIABLES
    \* ---- SpecProbe
    target,      \* the target description handed to the probe engine
    ev,          \* what the network does to the probe (the probe's raw result)
    agentOut,    \* outcome built by agent.py run_target, or NoOutcome
    appOut,      \* outcome built by app.py check_target, or NoOutcome
    \* ---- SpecAgent
    apc,         \* position of main_loop / send_batch
    cycle,       \* number of the cycle main_loop is in
    results,     \* the `results` of the current cycle (tagged by its cycle)
    attempt,     \* send_batch's loop variable
    posts,       \* the POSTs made so far: <<[cycle, batch, attempt, answer]>>
    sleeps,      \* the backoff sleeps of the current send_batch call
    sent,        \* what each finished send_batch call returned, per cycle
    \* ---- Spec, SpecIngest (collector)
    now,         \* the collector's clock
    apiKey,      \* APP_CONFIG.get('api_key')
    checks,      \* the table `checks`: a set of rows
    nextId,      \* sqlite's AUTOINCREMENT counter (largest id ever given)
    req,         \* the ingest request being handled
    resp,        \* the answer to the last finished ingest request
    spc,         \* position of cleanup_old_records_loop
    cutoffIso,   \* its cutoff_iso
    sweep,       \* record of the sweeps made (what the last one removed)
    \* ---- SpecRunCycle (agent.py run_cycle)
    cfg,         \* the agent's configuration: concurrency and targets
    rcPc,        \* position of run_cycle
    rt,          \* the task run_target(t) of each target: its position
    rcResults,   \* run_cycle's `results`
    completed,   \* the tasks that have finished, in the order they finished
    \* ---- SpecRunChecks (app.py main, monitoring_loop, run_checks)
    ck,          \* per thread: its position, its cycle's tasks, cycles finished
    resultsLock, \* the holder of results_lock, or NULL
    \* ---- SpecDb (app.py: the users of DB_CONN)
    dbLock,      \* the holder of DB_LOCK, or NULL
    db,          \* per thread: its position in a Store operation, the operation
    \* ---- SpecStatus (app.py api_status)
    st           \* the handler of GET /api/status: its position and locals

probeVars == <<target, ev, agentOut, appOut>>
agentVars == <<apc, cycle, results, attempt, posts, sleeps, sent>>
storeVars == <<now, apiKey, checks, nextId, req, resp, spc, cutoffIso, sweep>>
runCycleVars == <<cfg, rcPc, rt, rcResults, completed>>
runChecksVars == <<ck, resultsLock>>
dbVars == <<dbLock, db>>
statusVars == <<st>>
engineVars == <<runCycleVars, runChecksVars, dbVars, statusVars>>
vars == <<probeVars, agentVars, storeVars, engineVars>>

NULL == "NULL"      \* Python's None, SQL's NULL

-----------------------------------------------------------------------------
(***************************************************************************)
(* Probes.  Each check function maps what happened on the network to       *)
(* (success, latency, error, details).                                     *)
(***************************************************************************)

\* Latencies tried, in thousandths of a millisecond: around the 500 ms threshold.
LatSet == {0, 120000, 499995, 500000, 500001, 500004, 500005, 900000}

\* HTTP status codes tried.
CodeSet == {199, 200, 301, 399, 400, 404, 500}

\* connect_ex results tried (0 = connected, 111 = ECONNREFUSED).
ConnSet == {0, 111}

TypeSet == {"ping", "http", "tcp", "dns", "smtp"}

NoDetails == [kind |-> "none", status_code |-> 0]
EmptyDetails == [kind |-> "empty", status_code |-> 0]
HttpDetails(code) == [kind |-> "http", status_code |-> code]

\* An error text: None, a fixed text, or a text carrying a number
\* (f'HTTP {resp.status}', f'Connection refused (error: {result})').
NoError == [text |-> NULL, n |-> 0]
Err(text) == [text |-> text, n |-> 0]
ErrN(text, n) == [text |-> text, n |-> n]

Ret(success, latency, error, details) ==
    [success |-> success, latency |-> latency, error |-> error, details |-> details]

\* What can happen to a probe.  kind:
\*   "done"      the tool / request / connect finished: code is the exit code,
\*               the HTTP status or the connect_ex result, lat the measured time,
\*               out whether the tool printed something (dig's stdout)
\*   "timeout"   subprocess.TimeoutExpired, asyncio.TimeoutError, socket.timeout
\*   "gaierror"  socket.gaierror
\*   "notfound"  FileNotFoundError (dig missing), then gethostbyname succeeds
\*   "notfound_gai"  FileNotFoundError, then gethostbyname raises gaierror
\*   "error"     any other exception
EventSet ==
    [kind : {"done"}, code : CodeSet \cup ConnSet \cup {1}, lat : LatSet, out : BOOLEAN]
    \cup [kind : {"timeout", "gaierror", "notfound_gai", "error"}, code : {0}, lat : {0}, out : {FALSE}]
    \cup [kind : {"notfound"}, code : {0}, lat : LatSet, out : {FALSE}]

\* agent.py ping_host / app.py ping_host: the same cases; the agent's returns a
\* fourth component (details = None).
ping_host(e) ==
    IF e.kind = "done"
    THEN IF e.code = 0
         THEN Ret(TRUE, e.lat, NoError, NoDetails)
         ELSE Ret(FALSE, 0, Err("Host unreachable"), NoDetails)
    ELSE IF e.kind = "timeout"
    THEN Ret(FALSE, 0, Err("Timeout"), NoDetails)
    ELSE Ret(FALSE, 0, Err("str(e)"), NoDetails)


\* check_http with the upper end of the success range closed: a 400 answer
\* would count as a success.
check_http_closed400(e) ==
    IF e.kind = "done"
    THEN IF 200 <= e.code /\ e.code <= 400
         THEN Ret(TRUE, e.lat, NoError, HttpDetails(e.code))
         ELSE Ret(FALSE, e.lat, ErrN("HTTP", e.code), HttpDetails(e.code))
    ELSE IF e.kind = "timeout"
    THEN Ret(FALSE, 0, Err("Timeout"), EmptyDetails)
    ELSE Ret(FALSE, 0, Err("str(e)"), EmptyDetails)

\* agent.py check_http / app.py check_http.
check_http(e) ==
    IF e.kind = "done"
    THEN IF 200 <= e.code /\ e.code < 400
         THEN Ret(TRUE, e.lat, NoError, HttpDetails(e.code))
         ELSE Ret(FALSE, e.lat, ErrN("HTTP", e.code), HttpDetails(e.code))
    ELSE IF e.kind = "timeout"
    THEN Ret(FALSE, 0, Err("Timeout"), EmptyDetails)
    ELSE Ret(FALSE, 0, Err("str(e)"), EmptyDetails)

\* agent.py check_tcp / app.py check_tcp.
check_tcp(e) ==
    IF e.kind = "done"
    THEN IF e.code = 0
         THEN Ret(TRUE, e.lat, NoError, NoDetails)
         ELSE Ret(FALSE, e.lat, ErrN("Connection refused (error: N)", e.code), NoDetails)
    ELSE IF e.kind = "timeout"
    THEN Ret(FALSE, 0, Err("Timeout"), NoDetails)
    ELSE IF e.kind = "gaierror"
    THEN Ret(FALSE, 0, Err("DNS resolution failed: str(e)"), NoDetails)
    ELSE Ret(FALSE, 0, Err("str(e)"), NoDetails)

\* agent.py check_dns (asyncio subprocess; a timeout is just another exception).
agent_check_dns(e) ==
    IF e.kind = "done"
    THEN IF e.code = 0 /\ e.out
         THEN Ret(TRUE, e.lat, NoError, NoDetails)
         ELSE Ret(FALSE, e.lat, Err("DNS resolution failed"), NoDetails)
    ELSE IF e.kind = "notfound"
    THEN Ret(TRUE, e.lat, NoError, NoDetails)
    ELSE Ret(FALSE, 0, Err("str(e)"), NoDetails)

\* app.py check_dns (subprocess.run with timeout=5).
app_check_dns(e) ==
    IF e.kind = "done"
    THEN IF e.code = 0 /\ e.out
         THEN Ret(TRUE, e.lat, NoError, NoDetails)
         ELSE Ret(FALSE, e.lat, Err("DNS resolution failed"), NoDetails)
    ELSE IF e.kind = "timeout"
    THEN Ret(FALSE, 0, Err("Timeout"), NoDetails)
    ELSE IF e.kind = "notfound"
    THEN Ret(TRUE, e.lat, NoError, NoDetails)
    ELSE Ret(FALSE, 0, Err("str(e)"), NoDetails)

\* Python's round(latency, 2): thousandths to hundredths, ties to even.
Round2(x) ==
    LET q == x \div 10
        r == x % 10
    IN  IF r < 5 THEN q
        ELSE IF r > 5 THEN q + 1
        ELSE IF q % 2 = 0 THEN q ELSE q + 1

\* The threshold of the status derivation: 500 ms, in thousandths.
DegradedAbove == 500000

\* Mutant: the comparison made on the rounded latency_ms (hundredths).
AgentStatusRounded(success, latency) ==
    IF success /\ Round2(latency) <= DegradedAbove \div 10 THEN "online"
    ELSE IF success THEN "degraded" ELSE "offline"

\* agent.py run_target, line 148.
AgentStatus(success, latency) ==
    IF success /\ latency <= DegradedAbove THEN "online"
    ELSE IF success THEN "degraded" ELSE "offline"

\* app.py check_target, lines 394-401.
AppStatus(success, latency) ==
    IF success
    THEN IF latency > DegradedAbove THEN "degraded" ELSE "online"
    ELSE "offline"

NoOutcome == [done |-> FALSE]

Outcome(t, status, r) ==
    [done |-> TRUE, target_name |-> t.name, type |-> t.type, status |-> status,
     success |-> r.success, latency |-> r.latency,
     latency_ms |-> Round2(r.latency), error |-> r.error, details |-> r.details]

\* agent.py run_target: dispatch on the type, then the status.
run_target(t, e) ==
    LET r == IF t.type = "http" THEN check_http(e)
             ELSE IF t.type = "ping" THEN ping_host(e)
             ELSE IF t.type = "tcp" THEN check_tcp(e)
             ELSE IF t.type = "dns" THEN agent_check_dns(e)
             ELSE Ret(FALSE, 0, Err("Unknown type"), NoDetails)
    IN  Outcome(t, AgentStatus(r.success, r.latency), r)

\* app.py check_target: dispatch on the type (an unknown type keeps the
\* defaults success = False, latency = 0.0, error = None), then the status.
check_target(t, e) ==
    LET r == IF t.type = "ping" THEN ping_host(e)
             ELSE IF t.type = "http" THEN check_http(e)
             ELSE IF t.type = "tcp" THEN check_tcp(e)
             ELSE IF t.type = "dns" THEN app_check_dns(e)
             ELSE Ret(FALSE, 0, NoError, NoDetails)
    IN  Outcome(t, AppStatus(r.success, r.latency), r)

-----------------------------------------------------------------------------
(***************************************************************************)
(* SpecProbe: one target, one network event, probed by both engines.       *)
(***************************************************************************)

TargetSet == [name : {"web"}, type : TypeSet]

ProbeIdle ==
    /\ target = [name |-> "web", type |-> "ping"]
    /\ ev = [kind |-> "error", code |-> 0, lat |-> 0, out |-> FALSE]
    /\ agentOut = NoOutcome
    /\ appOut = NoOutcome

\* agent.py run_cycle: the outcome run_target returns for the target.
AgentRunTarget ==
    /\ ~agentOut.done
    /\ agentOut' = run_target(target, ev)
    /\ UNCHANGED <<target, ev, appOut, agentVars, storeVars, engineVars>>

\* app.py run_checks: the outcome check_target returns for the target.
AppCheckTarget ==
    /\ ~appOut.done
    /\ appOut' = check_target(target, ev)
    /\ UNCHANGED <<target, ev, agentOut, agentVars, storeVars, engineVars>>

-----------------------------------------------------------------------------
(***************************************************************************)
(* SpecAgent: agent.py main_loop and send_batch.                           *)
(***************************************************************************)

\* Cycles the agent is followed for.
MaxCycles == 2

\* range(5) in send_batch.
MaxAttempts == 5

\* What one POST can end in: the collector's status code, or 0 for an
\* exception (transport error, timeout, a failed resp.text()).
AnswerSet == {200, 500, 401, 0}

RECURSIVE Pow2(_)
Pow2(n) == IF n = 0 THEN 1 ELSE 2 * Pow2(n - 1)

\* Mutant: a linear backoff.
BackoffLinear(a) == 2 * a

\* send_batch line 182: asyncio.sleep(2 ** attempt).
Backoff(a) == Pow2(a)

\* Mutant: one attempt too many (range(6)).
MoreAttemptsSix(a) == a + 1 < MaxAttempts + 1

\* send_batch line 172: whether `for attempt in range(5)` has a next value after a.
MoreAttempts(a) == a + 1 < MaxAttempts

\* main_loop line 199: results = await run_cycle(cfg); whatever the previous
\* send_batch returned, the cycle's results replace the previous batch.
NextBatch(c) == [cycle |-> c]

AgentIdle ==
    /\ apc = "cycle"
    /\ cycle = 0
    /\ results = [cycle |-> 0]
    /\ attempt = 0
    /\ posts = <<>>
    /\ sleeps = <<>>
    /\ sent = <<>>

\* main_loop lines 198-200: run the cycle, then call send_batch(results), which
\* builds its payload from results and enters its loop with attempt = 0.
RunCycle ==
    /\ apc = "cycle"
    /\ cycle < MaxCycles
    /\ cycle' = cycle + 1
    /\ results' = NextBatch(cycle + 1)
    /\ attempt' = 0
    /\ posts' = <<>>
    /\ sleeps' = <<>>
    /\ apc' = "post"
    /\ UNCHANGED <<sent, probeVars, storeVars, engineVars>>

\* send_batch lines 173-181: one POST of the payload; 200 returns True, any
\* other answer and any exception go on to the sleep.
Post ==
    /\ apc = "post"
    /\ \E a \in AnswerSet :
         /\ posts' = Append(posts, [cycle |-> cycle, batch |-> results.cycle,
                                    attempt |-> attempt, answer |-> a])
         /\ IF a = 200
            THEN /\ sent' = Append(sent, [cycle |-> cycle, ok |-> TRUE])
                 /\ apc' = "wait"
            ELSE /\ sent' = sent
                 /\ apc' = "sleep"
    /\ UNCHANGED <<cycle, results, attempt, sleeps, probeVars, storeVars, engineVars>>

\* send_batch lines 182-183: the sleep after a failed attempt, then the next
\* attempt, or return False when range(5) is exhausted.
Sleep ==
    /\ apc = "sleep"
    /\ sleeps' = Append(sleeps, Backoff(attempt))
    /\ IF MoreAttempts(attempt)
       THEN /\ attempt' = attempt + 1
            /\ apc' = "post"
            /\ sent' = sent
       ELSE /\ attempt' = attempt
            /\ apc' = "wait"
            /\ sent' = Append(sent, [cycle |-> cycle, ok |-> FALSE])
    /\ UNCHANGED <<cycle, results, posts, probeVars, storeVars, engineVars>>

\* main_loop lines 203-212: sleep to the next round minute, then loop.
NextCycle ==
    /\ apc = "wait"
    /\ apc' = "cycle"
    /\ UNCHANGED <<cycle, results, attempt, posts, sleeps, sent, probeVars, storeVars, engineVars>>

-----------------------------------------------------------------------------
(***************************************************************************)
(* The collector's clock and timestamps.                                   *)
(***************************************************************************)

\* Retention horizon (retention_hours), in half seconds.
RetentionTicks == 2

\* The clock runs from StartTime to MaxTime; agents' clocks show 0..MaxTime.
MaxTime == 3
StartTime == RetentionTicks
Times == 0..MaxTime

Digit(d) == 48 + d      \* the character code of a decimal digit

\* datetime.isoformat() of an aware UTC time, reduced to the part that varies:
\* the two digits of the seconds, ".5" (".500000") only when the microsecond
\* is not 0, and "+" (the "+00:00" that ends it).
isoformat(t) ==
    LET sec == t \div 2
    IN  <<Digit(sec \div 10), Digit(sec % 10)>>
        \o (IF t % 2 = 1 THEN <<46, 53>> ELSE <<>>)
        \o <<43>>

\* datetime.fromisoformat: the time a timestamp text was formatted from.
fromisoformat(ts) == CHOOSE t \in Times : isoformat(t) = ts

\* sqlite's comparison of two TEXT values (BINARY collation, memcmp): a < b.
RECURSIVE TextLess(_, _)
TextLess(a, b) ==
    IF b = <<>> THEN FALSE
    ELSE IF a = <<>> THEN TRUE
    ELSE IF Head(a) # Head(b) THEN Head(a) < Head(b)
    ELSE TextLess(Tail(a), Tail(b))

\* utcnow().isoformat()
utcnow_iso == isoformat(now)

-----------------------------------------------------------------------------
(***************************************************************************)
(* The Store: the table `checks`.                                          *)
(***************************************************************************)

\* Rows the table is followed to (ids ever given).
MaxRows == 3

\* SQL's = on two values: never true of a NULL.
SqlEq(a, b) == a # NULL /\ b # NULL /\ a = b

\* GROUP BY agent_id, target_name: NULLs fall into one group.
SameGroup(r, q) == r.agent_id = q.agent_id /\ r.target_name = q.target_name

MaxOf(S) == CHOOSE m \in S : \A x \in S : x <= m

\* An INSERT OR REPLACE keyed on (agent_id, target_name): the new row takes the
\* place of the stored row of its key.
InsertRowReplacing(tbl, last, agent_id, cr) ==
    LET row == [id |-> last + 1, agent_id |-> agent_id, target_name |-> cr.target_name,
                status |-> cr.status, timestamp |-> cr.timestamp]
    IN  {r \in tbl : ~SameGroup(r, row)} \cup {row}

\* An INSERT into a table whose id is a plain INTEGER PRIMARY KEY: the row gets
\* one more than the largest id in the table, so the id of a deleted last row
\* is given again.
InsertRowRowid(tbl, last, agent_id, cr) ==
    LET top == IF tbl = {} THEN 0 ELSE MaxOf({r.id : r \in tbl})
    IN  tbl \cup {[id |-> top + 1, agent_id |-> agent_id, target_name |-> cr.target_name,
                   status |-> cr.status, timestamp |-> cr.timestamp]}

\* The INSERT of insert_check (under DB_LOCK, one transaction): the row gets
\* the next AUTOINCREMENT id.
InsertRow(tbl, last, agent_id, cr) ==
    tbl \cup {[id |-> last + 1, agent_id |-> agent_id, target_name |-> cr.target_name,
               status |-> cr.status, timestamp |-> cr.timestamp]}

\* Mutant: the group's row picked by MIN(id).
get_latest_statuses_min(tbl) ==
    LET G(r) == {q.id : q \in {x \in tbl : SameGroup(x, r)}}
        ids == {CHOOSE m \in G(r) : \A x \in G(r) : m <= x : r \in tbl}
    IN  {c \in tbl : c.id \in ids}

\* get_latest_statuses: checks JOIN (SELECT MAX(id) ... GROUP BY agent_id,
\* target_name) ON c.id = m.max_id.
get_latest_statuses(tbl) ==
    LET ids == {MaxOf({q.id : q \in {x \in tbl : SameGroup(x, r)}}) : r \in tbl}
    IN  {c \in tbl : c.id \in ids}

\* api_summary: the counts over the rows get_latest_statuses returns.
api_summary(tbl) ==
    LET rows == get_latest_statuses(tbl)
    IN  [total |-> Cardinality(rows),
         online |-> Cardinality({r \in rows : SqlEq(r.status, "online")}),
         degraded |-> Cardinality({r \in rows : SqlEq(r.status, "degraded")}),
         offline |-> Cardinality({r \in rows : SqlEq(r.status, "offline")})]

Reverse(s) == [i \in 1..Len(s) |-> s[Len(s) + 1 - i]]

Min2(a, b) == IF a <= b THEN a ELSE b

\* The orders ORDER BY timestamp DESC may give a set of rows: sqlite leaves the
\* order of rows with equal timestamps open.
\* Any row that no other row is after comes first, then the rest likewise.
RECURSIVE DescOrders(_)
DescOrders(S) ==
    IF S = {} THEN {<<>>}
    ELSE UNION {{<<r>> \o s : s \in DescOrders(S \ {r})} :
                   r \in {x \in S : \A y \in S : ~TextLess(x.timestamp, y.timestamp)}}

\* The largest limit get_recent_history is tried with.
MaxLimit == 2

\* get_recent_history with ORDER BY timestamp ASC LIMIT ?: the oldest rows of
\* the key, not the newest.
recent_rows_oldest(tbl, agent_id, target_name, limit) ==
    LET S == {r \in tbl : SqlEq(r.agent_id, agent_id) /\ SqlEq(r.target_name, target_name)}
    IN  {SubSeq(Reverse(s), 1, Min2(limit, Len(s))) : s \in DescOrders(S)}

\* Mutant: the rows returned as fetched (newest first), not reversed.
recent_rows_unreversed(tbl, agent_id, target_name, limit) ==
    LET S == {r \in tbl : SqlEq(r.agent_id, agent_id) /\ SqlEq(r.target_name, target_name)}
    IN  {SubSeq(s, 1, Min2(limit, Len(s))) : s \in DescOrders(S)}

\* get_recent_history: WHERE agent_id = ? AND target_name = ? ORDER BY timestamp
\* DESC LIMIT ?, then reversed(rows).  Every result the query may give, as rows.
recent_rows(tbl, agent_id, target_name, limit) ==
    LET S == {r \in tbl : SqlEq(r.agent_id, agent_id) /\ SqlEq(r.target_name, target_name)}
    IN  {Reverse(SubSeq(s, 1, Min2(limit, Len(s)))) : s \in DescOrders(S)}

\* get_recent_history's return value: status, latency_ms (not modelled in the
\* Store) and timestamp of each row.
get_recent_history(tbl, agent_id, target_name, limit) ==
    {[i \in 1..Len(s) |-> [status |-> s[i].status, timestamp |-> s[i].timestamp]] :
        s \in recent_rows(tbl, agent_id, target_name, limit)}

\* Mutant: DELETE ... WHERE timestamp <= ?.
DeleteOlderOrEqual(tbl, cutoff_iso) ==
    {r \in tbl : ~(TextLess(r.timestamp, cutoff_iso) \/ r.timestamp = cutoff_iso)}

\* cleanup_old_records_loop: DELETE FROM checks WHERE timestamp < ?.
DeleteOlder(tbl, cutoff_iso) == {r \in tbl : ~TextLess(r.timestamp, cutoff_iso)}

-----------------------------------------------------------------------------
(***************************************************************************)
(* POST /api/ingest, from anything that can reach the endpoint: any key,   *)
(* any JSON payload, any entries.                                          *)
(***************************************************************************)

\* Entries one request's `checks` list is followed to.
MaxBatch == 3

\* X-API-Key as received: absent (None), empty, the configured secret, another.
KeySet == {NULL, "", "k1", "k2"}

\* What request.get_json() can return.  type is the JSON type; empty says the
\* value is falsy in Python (null, {}, [], "", 0, false); has_checks says
\* `'checks' in payload` is true (a key of an object, an element of an array, a
\* substring of a string); checks is the type of payload['checks'] of an object.
\* Followed: {"checks": [...]}, null, {}, {"agent_id": "a1"}, {"checks": null},
\* ["checks"] and 5.
ListPayload == [type |-> "object", empty |-> FALSE, has_checks |-> TRUE, checks |-> "list"]

PayloadSet ==
    {ListPayload,
     [type |-> "null",   empty |-> TRUE,  has_checks |-> FALSE, checks |-> "none"],
     [type |-> "object", empty |-> TRUE,  has_checks |-> FALSE, checks |-> "none"],
     [type |-> "object", empty |-> FALSE, has_checks |-> FALSE, checks |-> "none"],
     [type |-> "object", empty |-> FALSE, has_checks |-> TRUE,  checks |-> "null"],
     [type |-> "array",  empty |-> FALSE, has_checks |-> TRUE,  checks |-> "none"],
     [type |-> "number", empty |-> FALSE, has_checks |-> FALSE, checks |-> "none"]}

\* payload.get('agent_id', 'unknown')
AgentIdSet == {"a1", "unknown"}

\* The entries of a `checks` list.  shape "dict" is a JSON object, "other" any
\* other JSON value (c.get raises AttributeError).  A field the object does not
\* have reads as NULL (c.get returns None); target_name "[]" is a JSON array,
\* which sqlite3 cannot bind (insert_check raises).  has_timestamp FALSE is an
\* object without the key: c.get('timestamp', utcnow().isoformat()).
EntryTimes == {0}

Entry(shape, target_name, status, has_timestamp, timestamp) ==
    [shape |-> shape, target_name |-> target_name, status |-> status,
     has_timestamp |-> has_timestamp, timestamp |-> timestamp]

\* Outcomes as agent.py builds them: a target name, a status, a timestamp.
AgentEntries ==
    {Entry("dict", t, "online", TRUE, isoformat(k)) : t \in {"t1", "t2"}, k \in EntryTimes}
    \cup {Entry("dict", t, "online", FALSE, <<>>) : t \in {"t1", "t2"}}

NonDictEntry == Entry("other", NULL, NULL, FALSE, <<>>)
UnbindableEntry == Entry("dict", "[]", "online", FALSE, <<>>)
EmptyDictEntry == Entry("dict", NULL, NULL, FALSE, <<>>)
BogusStatusEntry == Entry("dict", "t1", "bogus", FALSE, <<>>)

AnyEntries ==
    {Entry("dict", "t1", "online", FALSE, <<>>),
     NonDictEntry, UnbindableEntry, EmptyDictEntry, BogusStatusEntry}

StatusSet == {"online", "degraded", "offline"}

\* app.py CheckResult (target_name: str, status: str, one of online, offline,
\* degraded): an entry that is no such record, being no object, or an object
\* without a target name or with a status outside StatusSet.
Malformed(e) ==
    \/ e.shape # "dict"
    \/ e.target_name \in {NULL, "[]"}
    \/ e.status \notin StatusSet

\* api_ingest lines 536-544: whether CheckResult(...) or insert_check raises.
Raises(e) == e.shape # "dict" \/ e.target_name = "[]"

\* api_ingest lines 536-543: the CheckResult built from an entry.
CheckResultOf(e, now_iso) ==
    [target_name |-> e.target_name, status |-> e.status,
     timestamp |-> IF e.has_timestamp THEN e.timestamp ELSE now_iso]

\* api_ingest line 524: not api_key or api_key != APP_CONFIG.get('api_key').
Unauthorized(key, configured) == key = NULL \/ key = "" \/ key # configured

\* Mutant: the payload validated before the key.
IngestGatePayloadFirst(key, configured, p) ==
    IF p.empty THEN 400
    ELSE IF p.type = "number" THEN 500
    ELSE IF ~p.has_checks THEN 400
    ELSE IF Unauthorized(key, configured) THEN 401
    ELSE IF p.type # "object" THEN 500
    ELSE IF p.checks # "list" THEN 500
    ELSE 200

\* api_ingest lines 523-534, up to the loop: the status the request is answered
\* before any entry is read, or 200 when the loop is entered.  500 is Flask's
\* answer to an exception the handler does not catch: `'checks' not in payload`
\* on a number (TypeError), payload.get on a non-object (AttributeError),
\* `for c in checks` on null (TypeError).
IngestGate(key, configured, p) ==
    IF Unauthorized(key, configured) THEN 401
    ELSE IF p.empty THEN 400
    ELSE IF p.type = "number" THEN 500
    ELSE IF ~p.has_checks THEN 400
    ELSE IF p.type # "object" THEN 500
    ELSE IF p.checks # "list" THEN 500
    ELSE 200

\* req: the request in the handler.  n counts the entries read so far,
\* malformed those of them that are Malformed, inserted is the handler's
\* counter, added the rows the request's INSERTs put into the table,
\* last_valid the ids of the rows stored for the last entry of each target
\* that is not Malformed.
IdleReq ==
    [pc |-> "idle", key |-> NULL, payload |-> ListPayload,
     agent_id |-> "unknown", n |-> 0, malformed |-> 0, inserted |-> 0, added |-> 0,
     last_valid |-> {}]

\* The ids kept in last_valid once entry e was read and left the rows `new` in
\* the table: for the target of a well-formed e, its row alone.
LastValid(ids, tbl, e, new) ==
    IF Malformed(e) THEN ids
    ELSE {i \in ids : \A r \in tbl : r.id = i => r.target_name # e.target_name}
         \cup {r.id : r \in new}

NoResp == [code |-> 0, received |-> 0]

\* api_ingest lines 521-533: a request arrives; the key and the payload are
\* checked, and the request is answered or the loop over `checks` is entered.
IngestBegin ==
    /\ req.pc \in {"idle", "done"}
    /\ \E key \in KeySet, p \in PayloadSet :
         LET code == IngestGate(key, apiKey, p)
         IN  /\ \E a \in IF code = 200 THEN AgentIdSet ELSE {"unknown"} :
                    req' = [IdleReq EXCEPT !.pc = IF code = 200 THEN "loop" ELSE "done",
                                           !.key = key, !.payload = p, !.agent_id = a]
             /\ resp' = IF code = 200 THEN NoResp ELSE [code |-> code, received |-> 0]
    /\ UNCHANGED <<now, apiKey, checks, nextId, spc, cutoffIso, sweep,
                   probeVars, agentVars, engineVars>>

\* api_ingest lines 534-547: one pass of the loop over the next entry of the
\* list: build the CheckResult and insert it, or catch what that raises.
IngestEntry ==
    /\ req.pc = "loop"
    /\ req.n < MaxBatch
    /\ nextId < MaxRows
    /\ \E e \in AnyEntries :
         LET tbl == IF Raises(e) THEN checks
                    ELSE InsertRow(checks, nextId, req.agent_id, CheckResultOf(e, utcnow_iso))
         IN  /\ checks' = tbl
             /\ nextId' = IF Raises(e) THEN nextId ELSE nextId + 1
             /\ req' = [req EXCEPT !.n = @ + 1,
                                   !.malformed = @ + (IF Malformed(e) THEN 1 ELSE 0),
                                   !.inserted = @ + (IF Raises(e) THEN 0 ELSE 1),
                                   !.added = @ + Cardinality(tbl \ checks),
                                   !.last_valid = LastValid(@, checks, e, tbl \ checks)]
             /\ sweep' = [sweep EXCEPT !.clean = @ /\ tbl = checks,
                                       !.raced = @ \/ (spc = "delete" /\ tbl # checks)]
    /\ UNCHANGED <<now, apiKey, resp, spc, cutoffIso, probeVars, agentVars, engineVars>>

\* api_ingest line 549: the list is exhausted; answer 200 with the count.
IngestReturn ==
    /\ req.pc = "loop"
    /\ req' = [req EXCEPT !.pc = "done"]
    /\ resp' = [code |-> 200, received |-> req.inserted]
    /\ UNCHANGED <<now, apiKey, checks, nextId, spc, cutoffIso, sweep,
                   probeVars, agentVars, engineVars>>

-----------------------------------------------------------------------------
(***************************************************************************)
(* cleanup_old_records_loop, and the clock.                                *)
(***************************************************************************)

\* sweep records, for the sweeps made so far:
\*   ran       a DELETE ran
\*   cutoff    the clock when the current cutoff was computed, less the horizon
\*   prev      the cutoff of the DELETE before the last one
\*   clean     no row was inserted since the last DELETE
\*   second    the last DELETE followed another with no insert in between
\*   removed   how many rows the last DELETE removed
\*   raced     a row was inserted between the cutoff's computation and the DELETE
\*   rested    time has passed since the loop went to sleep
NoSweep ==
    [ran |-> FALSE, cutoff |-> 0, prev |-> 0, clean |-> FALSE, second |-> FALSE,
     removed |-> 0, raced |-> FALSE, rested |-> FALSE]

\* insert_check, as api_ingest's loop (line 544) and run_checks (line 434)
\* call it for one outcome: one INSERT, under DB_LOCK.  The outcome is one of
\* an agent's, stamped by its producer or by the collector.
InsertCheck ==
    /\ nextId < MaxRows
    /\ \E a \in AgentIdSet, e \in AgentEntries :
         checks' = InsertRow(checks, nextId, a, CheckResultOf(e, utcnow_iso))
    /\ nextId' = nextId + 1
    /\ sweep' = [sweep EXCEPT !.clean = FALSE, !.raced = @ \/ spc = "delete"]
    /\ UNCHANGED <<now, apiKey, req, resp, spc, cutoffIso, probeVars, agentVars, engineVars>>

\* Mutant: the horizon left out of the cutoff.
CutoffNoHorizon(t) == t

\* Line 238: cutoff = utcnow() - timedelta(seconds=seconds).
Cutoff(t) == t - RetentionTicks

\* Lines 238-239: the cutoff is computed and formatted.  The first pass runs
\* at once, a later one after time.sleep(3600).
SweepCutoff ==
    /\ \/ spc = "start"
       \/ spc = "sleep" /\ sweep.rested
    /\ spc' = "delete"
    /\ cutoffIso' = isoformat(Cutoff(now))
    /\ sweep' = [sweep EXCEPT !.cutoff = now - RetentionTicks, !.prev = sweep.cutoff,
                              !.raced = FALSE, !.second = FALSE, !.removed = 0]
    /\ UNCHANGED <<now, apiKey, checks, nextId, req, resp, probeVars, agentVars, engineVars>>

\* Lines 240-243: the DELETE, under DB_LOCK, then the sleep begins.
SweepDelete ==
    /\ spc = "delete"
    /\ checks' = DeleteOlder(checks, cutoffIso)
    /\ spc' = "sleep"
    /\ sweep' = [sweep EXCEPT !.ran = TRUE, !.clean = TRUE,
                              !.second = sweep.ran /\ sweep.clean,
                              !.removed = Cardinality(checks \ checks'),
                              !.rested = FALSE]
    /\ UNCHANGED <<now, apiKey, nextId, req, resp, cutoffIso, probeVars, agentVars, engineVars>>

\* Time passes.
Tick ==
    /\ now < MaxTime
    /\ now' = now + 1
    /\ sweep' = [sweep EXCEPT !.rested = (spc = "sleep")]
    /\ UNCHANGED <<apiKey, checks, nextId, req, resp, spc, cutoffIso,
                   probeVars, agentVars, engineVars>>

\* The collector starts with an empty table and its loops at their start.
InitStore ==
    /\ now = StartTime
    /\ checks = {}
    /\ nextId = 0
    /\ req = IdleReq
    /\ resp = NoResp
    /\ spc = "start"
    /\ cutoffIso = isoformat(0)
    /\ sweep = NoSweep

StoreIdle == InitStore /\ apiKey = "k1"

-----------------------------------------------------------------------------
(***************************************************************************)
(* agent.py run_cycle: one task run_target(t) per configured target, each  *)
(* behind the cycle's asyncio.Semaphore(concurrency).                      *)
(***************************************************************************)

\* Targets a configuration is followed to, and the largest `concurrency`.
MaxTargets == 3
MaxConcurrency == 2

\* Types of the targets of a cycle: http and dns run on the event loop, ping
\* (and tcp) in a worker thread (asyncio.to_thread), awaited by the task.
CycleTypes == {"http", "ping", "dns"}

TargetName(i) == <<"t1", "t2", "t3", "t4">>[i]

\* cfg: `concurrency` and `targets` of the YAML configuration.
ConfigSet ==
    [concurrency : 0..MaxConcurrency,
     targets : UNION {[1..n -> CycleTypes] : n \in 0..MaxTargets}]

TargetOf(c, i) == [name |-> TargetName(i), type |-> c.targets[i]]

\* What a probe of a cycle meets: an answer in good time, a timeout, and (dns)
\* dig missing with gethostbyname raising an error that is no gaierror (a
\* UnicodeError, for a label of more than 63 characters).
OkEvent(type) ==
    [kind |-> "done", code |-> IF type = "http" THEN 200 ELSE 0, lat |-> 120000, out |-> TRUE]
TimeoutEvent == [kind |-> "timeout", code |-> 0, lat |-> 0, out |-> FALSE]
EscapingEvent == [kind |-> "notfound_err", code |-> 0, lat |-> 0, out |-> FALSE]

CycleEventsOf(type) ==
    {OkEvent(type), TimeoutEvent} \cup (IF type = "dns" THEN {EscapingEvent} ELSE {})

\* agent.py check_dns lines 114-119 (app.py check_dns lines 361-368): inside
\* `except FileNotFoundError` only socket.gaierror is caught; another error of
\* gethostbyname leaves check_dns, and run_target (check_target), as raised.
ProbeRaises(t, e) == t.type = "dns" /\ e.kind = "notfound_err"

\* A task: created by as_completed, probing inside `async with sem`, then
\* returned (with its outcome) or raised, and at last collected by run_cycle.
Task(pc, out) == [pc |-> pc, out |-> out]

\* The tasks inside the semaphore's body, and the semaphore's value.
InFlight == {i \in DOMAIN rt : rt[i].pc = "probing"}
SemValue == cfg.concurrency - Cardinality(InFlight)

\* Mutant: a semaphore that never makes a task wait.
SemAcquirableAlways(value) == TRUE

\* asyncio.Semaphore.acquire returns at once only while the value is positive.
SemAcquirable(value) == value > 0

RunCycleIdle ==
    /\ cfg = [concurrency |-> 0, targets |-> <<>>]
    /\ rcPc = "idle"
    /\ rt = <<>>
    /\ rcResults = <<>>
    /\ completed = <<>>

\* Lines 124-128, 160: the semaphore, the empty results, one task per target.
RunCycleBegin ==
    /\ rcPc = "idle"
    /\ rcPc' = "running"
    /\ rt' = [i \in 1..Len(cfg.targets) |-> Task("created", NoOutcome)]
    /\ rcResults' = <<>>
    /\ completed' = <<>>
    /\ UNCHANGED <<cfg, probeVars, statusVars, agentVars, storeVars, runChecksVars, dbVars>>

\* Line 130: a task enters `async with sem`.
TaskEnter ==
    /\ rcPc = "running"
    /\ \E i \in DOMAIN rt :
         /\ rt[i].pc = "created"
         /\ SemAcquirable(SemValue)
         /\ rt' = [rt EXCEPT ![i] = Task("probing", NoOutcome)]
    /\ UNCHANGED <<cfg, rcPc, rcResults, completed, probeVars, statusVars, agentVars, storeVars, runChecksVars, dbVars>>

\* Lines 131-158: the probe ends; the task returns its outcome or raises, and
\* leaves the semaphore either way.
TaskLeave ==
    /\ rcPc = "running"
    /\ \E i \in DOMAIN rt :
         /\ rt[i].pc = "probing"
         /\ \E e \in CycleEventsOf(cfg.targets[i]) :
              rt' = [rt EXCEPT ![i] =
                        IF ProbeRaises(TargetOf(cfg, i), e)
                        THEN Task("raised", NoOutcome)
                        ELSE Task("returned", run_target(TargetOf(cfg, i), e))]
         /\ completed' = Append(completed, i)
    /\ UNCHANGED <<cfg, rcPc, rcResults, probeVars, statusVars, agentVars, storeVars, runChecksVars, dbVars>>

\* The tasks run_cycle has taken from as_completed so far.
Collected == {i \in DOMAIN rt : rt[i].pc = "collected"}

\* as_completed with the finished tasks taken in the order of the
\* configuration, whatever the order they finished in.
NextCompletedInConfigOrder(done, taken) ==
    CHOOSE i \in {done[k] : k \in 1..Len(done)} \ taken :
        \A j \in {done[k] : k \in 1..Len(done)} \ taken : i <= j

\* Line 161, asyncio.as_completed: the finished tasks are handed out in the
\* order they finished (each is queued by its done callback).
NextCompleted(done, taken) == done[Cardinality(taken) + 1]

\* Lines 161-163: `r = await fut` on the next finished task: its outcome is
\* appended, or its exception is raised out of run_cycle.
Collect ==
    /\ rcPc = "running"
    /\ Len(completed) > Cardinality(Collected)
    /\ LET i == NextCompleted(completed, Collected)
       IN  \/ /\ rt[i].pc = "returned"
              /\ rcResults' = Append(rcResults, rt[i].out)
              /\ rt' = [rt EXCEPT ![i].pc = "collected"]
              /\ rcPc' = rcPc
           \/ /\ rt[i].pc = "raised"
              /\ rcPc' = "aborted"
              /\ rt' = [rt EXCEPT ![i].pc = "collected"]
              /\ rcResults' = rcResults
    /\ UNCHANGED <<cfg, completed, probeVars, statusVars, agentVars, storeVars, runChecksVars, dbVars>>

\* Line 165: every task collected, run_cycle returns results.
RunCycleReturn ==
    /\ rcPc = "running"
    /\ \A i \in DOMAIN rt : rt[i].pc = "collected"
    /\ rcPc' = "returned"
    /\ UNCHANGED <<cfg, rt, rcResults, completed, probeVars, statusVars, agentVars, storeVars, runChecksVars, dbVars>>

-----------------------------------------------------------------------------
(***************************************************************************)
(* agent.py main_loop over run_cycle: `results = await run_cycle(cfg)`,     *)
(* then `await send_batch(results)`, then the sleep to the next minute.    *)
(* send_batch is followed as one call here; its attempts are SpecAgent's.  *)
(***************************************************************************)

\* AGENT_ID (line 25): the environment's AGENT_ID, or the host name.
AGENT_ID == "a1"

\* send_batch line 169: payload = {'agent_id': AGENT_ID, 'checks': results}.
Payload(c, outcomes) == [cycle |-> c, agent_id |-> AGENT_ID, checks |-> outcomes]

\* A main_loop that does not wait for the cycle: send_batch is called while
\* probes are still running.
CycleAwaitedNever(pc) == pc \in {"running", "returned"}

\* main_loop line 199: `await run_cycle(cfg)` is over when run_cycle returned.
CycleAwaited(pc) == pc = "returned"

\* The agent's configurations followed through the main loop: ping targets,
\* or one dns target, whose probe may raise.
MainLoopConfigSet ==
    [concurrency : 0..MaxConcurrency,
     targets : {[i \in 1..n |-> "ping"] : n \in 0..MaxTargets} \cup {<<"dns">>}]

\* main_loop line 199, run_cycle lines 124-128, 160: the next cycle is begun:
\* a semaphore, empty results, one task per target.  The previous send_batch
\* call and its payload are gone.
MainRunCycle ==
    /\ apc = "cycle"
    /\ cycle < MaxCycles
    /\ cycle' = cycle + 1
    /\ apc' = "probing"
    /\ results' = NextBatch(cycle + 1)
    /\ rcPc' = "running"
    /\ rt' = [i \in 1..Len(cfg.targets) |-> Task("created", NoOutcome)]
    /\ rcResults' = <<>>
    /\ completed' = <<>>
    /\ UNCHANGED <<cfg, attempt, posts, sleeps, sent, probeVars, statusVars, storeVars,
                   runChecksVars, dbVars>>

\* main_loop line 200, send_batch lines 168-170: send_batch is called with
\* what run_cycle returned and builds its payload.
MainSendBatch ==
    /\ apc = "probing"
    /\ CycleAwaited(rcPc)
    /\ results' = Payload(cycle, rcResults)
    /\ apc' = "sending"
    /\ UNCHANGED <<cycle, attempt, posts, sleeps, sent, probeVars, storeVars, engineVars>>

\* send_batch lines 172-183: the call returns True (an attempt answered 200)
\* or False (attempts exhausted).
MainSendReturns ==
    /\ apc = "sending"
    /\ \E ok \in BOOLEAN : sent' = Append(sent, [cycle |-> results.cycle, ok |-> ok])
    /\ apc' = "wait"
    /\ UNCHANGED <<cycle, results, attempt, posts, sleeps, probeVars, storeVars, engineVars>>

-----------------------------------------------------------------------------
(***************************************************************************)
(* app.py, standalone mode: main() starts the monitoring thread and runs   *)
(* run_checks once itself; monitoring_loop runs run_checks, sleeps, and    *)
(* repeats.  Each run_checks has its own event loop (asyncio.run): an http *)
(* probe awaits on it, a ping or dns probe blocks it until it is done.     *)
(***************************************************************************)

Threads == {"main", "monitor"}

\* Configurations of the collector; `concurrency` is the bound the agent reads
\* (app.py reads no such key, so one value is followed).
AppConfigSet ==
    [concurrency : {MaxConcurrency},
     targets : UNION {[1..n -> CycleTypes] : n \in 0..MaxTargets}]

\* What a probe of the collector's cycle meets: an answer in good time, or
\* (dns) the error that leaves check_dns.
AppEventsOf(type) ==
    {OkEvent(type)} \cup (IF type = "dns" THEN {EscapingEvent} ELSE {})

Blocking(type) == type # "http"

Thread(pc, tasks, cycles) == [pc |-> pc, tasks |-> tasks, cycles |-> cycles]

\* The probes of a thread's cycle that have started and not ended.
ProbesInFlight(th) == {i \in DOMAIN ck[th].tasks : ck[th].tasks[i].pc = "inflight"}

\* The thread's event loop is inside a blocking probe.
LoopBlocked(th) == \E i \in ProbesInFlight(th) : Blocking(cfg.targets[i])

\* The threads that are inside run_checks.
InCycle == {th \in Threads : ck[th].pc \in {"probing", "storing"}}

\* run_checks lines 419-427: the CheckResult made of a raised exception.
SyntheticOffline(t) ==
    [done |-> TRUE, target_name |-> t.name, type |-> t.type, status |-> "offline",
     success |-> FALSE, latency |-> 0, latency_ms |-> 0,
     error |-> Err("str(result)"), details |-> NoDetails]

RunChecksIdle ==
    /\ ck = [th \in Threads |-> Thread(IF th = "main" THEN "boot" ELSE "off", <<>>, 0)]
    /\ resultsLock = NULL

\* main lines 631-636: the monitoring thread (and the cleanup thread) started;
\* main goes on to its initial run_checks.
MainStartsThreads ==
    /\ ck["main"].pc = "boot"
    /\ ck' = [ck EXCEPT !["main"].pc = "initial", !["monitor"].pc = "loop"]
    /\ UNCHANGED <<resultsLock, runCycleVars, probeVars, statusVars, agentVars, storeVars, dbVars>>

\* run_checks lines 414-416, called at main line 640 or monitoring_loop line
\* 461: one task check_target(t) per target, gathered.
RunChecksBegin ==
    /\ \E th \in Threads :
         /\ ck[th].pc \in {"initial", "loop"}
         /\ ck' = [ck EXCEPT ![th].pc = "probing",
                             ![th].tasks = [i \in 1..Len(cfg.targets) |->
                                               Task("created", NoOutcome)]]
    /\ UNCHANGED <<resultsLock, runCycleVars, probeVars, statusVars, agentVars, storeVars, dbVars>>

\* check_target lines 374-392: the next task starts its probe, as soon as the
\* event loop is free; nothing bounds how many have started.
ProbeStart ==
    /\ \E th \in Threads :
         /\ ck[th].pc = "probing"
         /\ ~LoopBlocked(th)
         /\ \E i \in DOMAIN ck[th].tasks :
              /\ ck[th].tasks[i].pc = "created"
              /\ \A j \in 1..(i - 1) : ck[th].tasks[j].pc # "created"
              /\ ck' = [ck EXCEPT ![th].tasks[i].pc = "inflight"]
    /\ UNCHANGED <<resultsLock, runCycleVars, probeVars, statusVars, agentVars, storeVars, dbVars>>

\* check_target lines 384-410: a probe ends (a blocking one, or an http one
\* while the loop is free); the task returns its CheckResult or raises.
ProbeEnd ==
    /\ \E th \in Threads :
         /\ ck[th].pc = "probing"
         /\ \E i \in ProbesInFlight(th) :
              /\ Blocking(cfg.targets[i]) \/ ~LoopBlocked(th)
              /\ \E e \in AppEventsOf(cfg.targets[i]) :
                   ck' = [ck EXCEPT ![th].tasks[i] =
                             IF ProbeRaises(TargetOf(cfg, i), e)
                             THEN Task("raised", NoOutcome)
                             ELSE Task("returned", check_target(TargetOf(cfg, i), e))]
    /\ UNCHANGED <<resultsLock, runCycleVars, probeVars, statusVars, agentVars, storeVars, dbVars>>

\* run_checks lines 416-419: gather has every result (return_exceptions=True)
\* and results_lock is taken.
GatherDone ==
    /\ \E th \in Threads :
         /\ ck[th].pc = "probing"
         /\ \A i \in DOMAIN ck[th].tasks : ck[th].tasks[i].pc \in {"returned", "raised"}
         /\ resultsLock = NULL
         /\ resultsLock' = th
         /\ ck' = [ck EXCEPT ![th].pc = "storing"]
    /\ UNCHANGED <<runCycleVars, probeVars, statusVars, agentVars, storeVars, dbVars>>

\* Where a thread is after insert_check raised, had run_checks no try around
\* it: the exception leaves run_checks with the rest of the results unprocessed
\* (monitoring_loop and main catch it and go on).
AfterPersistErrorUncaught(th) == IF th = "main" THEN "serving" ELSE "sleep"

\* run_checks lines 433-437: insert_check is called inside try / except
\* Exception, which prints and goes on with the loop.
AfterPersistError(th) == "storing"

\* The results of a cycle that the storing loop has dealt with: stored, or
\* dropped because insert_check raised.
Processed == {"stored", "dropped"}

\* The most calls of insert_check that raise in one cycle.
MaxPersistErrors == 1

Dropped(th) == {i \in DOMAIN ck[th].tasks : ck[th].tasks[i].pc = "dropped"}

\* run_checks lines 420-437, one pass of the loop: an exception becomes an
\* offline CheckResult, a result is stamped, and insert_check stores it, or
\* raises (the database is locked, the disk is full) and stores nothing: `with
\* DB_CONN` rolls back.  (The in-memory monitoring_results, lines 439-453, is
\* read nowhere.)
StoreResult ==
    /\ \E th \in Threads :
         /\ ck[th].pc = "storing"
         /\ \E i \in DOMAIN ck[th].tasks :
              /\ ck[th].tasks[i].pc \in {"returned", "raised"}
              /\ \A j \in 1..(i - 1) : ck[th].tasks[j].pc \in Processed
              /\ LET r == IF ck[th].tasks[i].pc = "raised"
                          THEN SyntheticOffline(TargetOf(cfg, i))
                          ELSE ck[th].tasks[i].out
                 IN  \/ /\ ck' = [ck EXCEPT ![th].tasks[i] = Task("stored", r)]
                        /\ checks' = InsertRow(checks, nextId, "local",
                                               [target_name |-> r.target_name,
                                                status |-> r.status,
                                                timestamp |-> utcnow_iso])
                        /\ nextId' = nextId + 1
                        /\ resultsLock' = resultsLock
                     \/ /\ Cardinality(Dropped(th)) < MaxPersistErrors
                        /\ ck' = [ck EXCEPT ![th].tasks[i] = Task("dropped", r),
                                            ![th].pc = AfterPersistError(th)]
                        /\ resultsLock' = IF AfterPersistError(th) = "storing"
                                          THEN resultsLock ELSE NULL
                        /\ UNCHANGED <<checks, nextId>>
    /\ UNCHANGED <<now, apiKey, req, resp, spc, cutoffIso, sweep,
                   runCycleVars, probeVars, statusVars, agentVars, dbVars>>

\* run_checks returns: results_lock released; main goes on to app.run,
\* monitoring_loop to time.sleep(interval).
RunChecksEnd ==
    /\ \E th \in Threads :
         /\ ck[th].pc = "storing"
         /\ \A i \in DOMAIN ck[th].tasks : ck[th].tasks[i].pc \in Processed
         /\ ck' = [ck EXCEPT ![th].pc = IF th = "main" THEN "serving" ELSE "sleep",
                             ![th].cycles = @ + 1]
         /\ resultsLock' = NULL
    /\ UNCHANGED <<runCycleVars, probeVars, statusVars, agentVars, storeVars, dbVars>>

\* monitoring_loop lines 459-464: the sleep ends, the next cycle is due.
MonitorWakes ==
    /\ ck["monitor"].pc = "sleep"
    /\ ck["monitor"].cycles < MaxCycles
    /\ ck' = [ck EXCEPT !["monitor"].pc = "loop"]
    /\ UNCHANGED <<resultsLock, runCycleVars, probeVars, statusVars, agentVars, storeVars, dbVars>>

-----------------------------------------------------------------------------
(***************************************************************************)
(* app.py, the users of the Store.  Every statement on DB_CONN is made     *)
(* inside `with DB_LOCK:`; the threads are a request handler of            *)
(* /api/ingest, the standalone cycle, the cleanup thread and a request     *)
(* handler that queries.                                                   *)
(***************************************************************************)

DbThreads == {"ingest", "cycle", "sweep", "query"}

\* The Store operations a thread makes.
OpsOf(th) ==
    IF th \in {"ingest", "cycle"} THEN {"insert"}
    ELSE IF th = "sweep" THEN {"delete"}
    ELSE {"latest", "recent", "history"}

IsWrite(op) == op \in {"insert", "delete"}

DbUser(pc, op, cutoff, got) == [pc |-> pc, op |-> op, cutoff |-> cutoff, got |-> got]

\* The largest lookback get_history is tried with, in ticks.
MaxHours == 2

\* get_history with WHERE ... timestamp > ?: a record stamped exactly at the
\* cutoff is left out.
history_rows_after(tbl, target_name, cutoff_iso) ==
    LET S == {r \in tbl : SqlEq(r.target_name, target_name)
                          /\ TextLess(cutoff_iso, r.timestamp)}
    IN  {Reverse(s) : s \in DescOrders(S)}

\* get_history: WHERE target_name = ? AND timestamp >= ? ORDER BY timestamp
\* ASC.  Every result the query may give, as rows.
history_rows(tbl, target_name, cutoff_iso) ==
    LET S == {r \in tbl : SqlEq(r.target_name, target_name)
                          /\ ~TextLess(r.timestamp, cutoff_iso)}
    IN  {Reverse(s) : s \in DescOrders(S)}

Ids(s) == {s[i].id : i \in 1..Len(s)}

\* Mutant: a lock that anyone may take at any time.
LockFreeAlways(holder) == TRUE

\* threading.Lock: acquire returns only when no thread holds the lock.
LockFree(holder) == holder = NULL

DbIdle ==
    /\ dbLock = NULL
    /\ db = [th \in DbThreads |-> DbUser("out", "none", <<>>, {})]

\* A thread comes to a Store operation: insert_check (line 144),
\* get_latest_statuses (158), get_history (173, its cutoff computed at lines
\* 175-176), get_recent_history (218), the cleanup loop's pass (238-239).
DbCall ==
    /\ \E th \in DbThreads :
         /\ db[th].pc = "out"
         /\ \E op \in OpsOf(th) :
              /\ op = "insert" => nextId < MaxRows
              /\ db' = [db EXCEPT ![th] =
                           DbUser("wait", op,
                                  IF op \in {"delete", "history"}
                                  THEN isoformat(Cutoff(now)) ELSE <<>>,
                                  {})]
    /\ UNCHANGED <<dbLock, storeVars, probeVars, statusVars, agentVars, runCycleVars, runChecksVars>>

\* `with DB_LOCK:` is entered (lines 149, 160, 177, 220, 240).
DbAcquire ==
    /\ \E th \in DbThreads :
         /\ db[th].pc = "wait"
         /\ LockFree(dbLock)
         /\ dbLock' = th
         /\ db' = [db EXCEPT ![th].pc = "in"]
    /\ UNCHANGED <<storeVars, probeVars, statusVars, agentVars, runCycleVars, runChecksVars>>

\* The statement is executed (and committed, or its rows fetched).
DbExecute ==
    /\ \E th \in DbThreads :
         /\ db[th].pc = "in"
         /\ \/ /\ db[th].op = "insert"
               /\ nextId < MaxRows
               /\ \E e \in {x \in AgentEntries : x.target_name = "t1"} :
                    checks' = InsertRow(checks, nextId,
                                        IF th = "cycle" THEN "local" ELSE "a1",
                                        CheckResultOf(e, utcnow_iso))
               /\ nextId' = nextId + 1
               /\ db' = [db EXCEPT ![th].pc = "done"]
            \/ /\ db[th].op = "delete"
               /\ checks' = DeleteOlder(checks, db[th].cutoff)
               /\ nextId' = nextId
               /\ db' = [db EXCEPT ![th].pc = "done"]
            \/ /\ db[th].op = "latest"
               /\ db' = [db EXCEPT ![th].pc = "done",
                                   ![th].got = {r.id : r \in get_latest_statuses(checks)}]
               /\ UNCHANGED <<checks, nextId>>
            \/ /\ db[th].op = "recent"
               /\ \E s \in recent_rows(checks, "a1", "t1", MaxLimit) :
                    db' = [db EXCEPT ![th].pc = "done", ![th].got = Ids(s)]
               /\ UNCHANGED <<checks, nextId>>
            \/ /\ db[th].op = "history"
               /\ \E s \in history_rows(checks, "t1", db[th].cutoff) :
                    db' = [db EXCEPT ![th].pc = "done", ![th].got = Ids(s)]
               /\ UNCHANGED <<checks, nextId>>
    /\ UNCHANGED <<dbLock, now, apiKey, req, resp, spc, cutoffIso, sweep,
                   probeVars, statusVars, agentVars, runCycleVars, runChecksVars>>

\* `with DB_LOCK:` is left.
DbRelease ==
    /\ \E th \in DbThreads :
         /\ db[th].pc = "done"
         /\ dbLock' = NULL
         /\ db' = [db EXCEPT ![th] = DbUser("out", "none", <<>>, {})]
    /\ UNCHANGED <<storeVars, probeVars, statusVars, agentVars, runCycleVars, runChecksVars>>

-----------------------------------------------------------------------------
(***************************************************************************)
(* app.py api_status, the latest-status snapshot: get_latest_statuses,     *)
(* then the hours parameter and the limit, then get_recent_history for     *)
(* each row fetched.  Each query takes and leaves DB_LOCK on its own.      *)
(***************************************************************************)

\* The `hours` query parameter as text: a sequence of characters; NULL when
\* the parameter is missing.
MaxArgLen == 3
HoursAlphabet == {"-", "0", "1", "2", "4", "5", "."}
\* request.args.get('hours', 1): the parameter's text, or the default when the
\* query string has none.
NoArg == [given |-> FALSE, text |-> <<>>]
Arg(text) == [given |-> TRUE, text |-> text]
HoursArgSet == {NoArg} \cup {Arg(t) : t \in UNION {[1..n -> HoursAlphabet] : n \in 0..MaxArgLen}}

IsDigit(c) == c \in {"0", "1", "2", "3", "4", "5", "6", "7", "8", "9"}

DigitValue(c) ==
    CASE c = "0" -> 0 [] c = "1" -> 1 [] c = "2" -> 2 [] c = "3" -> 3 [] c = "4" -> 4
      [] c = "5" -> 5 [] c = "6" -> 6 [] c = "7" -> 7 [] c = "8" -> 8 [] c = "9" -> 9

RECURSIVE DigitsValue(_)
DigitsValue(d) ==
    IF d = <<>> THEN 0
    ELSE 10 * DigitsValue(SubSeq(d, 1, Len(d) - 1)) + DigitValue(d[Len(d)])

\* Python's int(text): an optional sign, then one digit or more; anything else
\* raises ValueError (ok = FALSE).
PyInt(text) ==
    LET signed == text # <<>> /\ text[1] \in {"-", "+"}
        body == IF signed THEN Tail(text) ELSE text
        ok == body # <<>> /\ \A i \in 1..Len(body) : IsDigit(body[i])
    IN  IF ok
        THEN [ok |-> TRUE,
              value |-> IF signed /\ text[1] = "-" THEN 0 - DigitsValue(body)
                        ELSE DigitsValue(body)]
        ELSE [ok |-> FALSE, value |-> 0]

\* The clamp without its lower end: hours = min(hours, 24).
status_hours_no_floor(arg) ==
    IF ~arg.given THEN 1
    ELSE IF PyInt(arg.text).ok THEN Min2(PyInt(arg.text).value, 24)
    ELSE 1

\* api_status lines 477-481: hours = int(request.args.get('hours', 1)), then
\* max(1, min(hours, 24)); 1 when int raises.
status_hours(arg) ==
    IF ~arg.given THEN 1
    ELSE IF PyInt(arg.text).ok
         THEN LET low == Min2(PyInt(arg.text).value, 24) IN IF low >= 1 THEN low ELSE 1
    ELSE 1

\* Line 485: limit = hours * 60.
status_limit(hours) == hours * 60

\* The handler: its position, the parameter, hours and limit, the rows
\* get_latest_statuses returned, those not yet gone through, and the entries
\* of `targets` built so far (current: the row; history: the rows
\* get_recent_history returned for its key).
StatusReq(pc, arg, hours, limit, rows, todo, targets) ==
    [pc |-> pc, arg |-> arg, hours |-> hours, limit |-> limit,
     rows |-> rows, todo |-> todo, targets |-> targets]

StatusIdle == st = StatusReq("idle", NoArg, 0, 0, {}, {}, {})

\* Line 474: rows = get_latest_statuses().
StatusLatest ==
    /\ st.pc = "idle"
    /\ LET rows == get_latest_statuses(checks)
       IN  st' = [st EXCEPT !.pc = "params", !.rows = rows, !.todo = rows]
    /\ UNCHANGED <<probeVars, agentVars, storeVars, runCycleVars, runChecksVars, dbVars>>

\* Lines 477-491: hours, limit (and the icon map).
StatusParams ==
    /\ st.pc = "params"
    /\ st' = [st EXCEPT !.pc = "history",
                        !.hours = status_hours(st.arg),
                        !.limit = status_limit(status_hours(st.arg))]
    /\ UNCHANGED <<probeVars, agentVars, storeVars, runCycleVars, runChecksVars, dbVars>>

\* Lines 493-512, one pass of `for r in rows`: get_recent_history for the
\* row's key, on the table as it is now, and the entry of the key.
StatusHistory ==
    /\ st.pc = "history"
    /\ \E r \in st.todo :
         \E h \in recent_rows(checks, r.agent_id, r.target_name, st.limit) :
             st' = [st EXCEPT !.todo = @ \ {r},
                              !.targets = @ \cup {[current |-> r, history |-> h]}]
    /\ UNCHANGED <<probeVars, agentVars, storeVars, runCycleVars, runChecksVars, dbVars>>

\* Lines 514-517: the answer.
StatusReturn ==
    /\ st.pc = "history"
    /\ st.todo = {}
    /\ st' = [st EXCEPT !.pc = "returned"]
    /\ UNCHANGED <<probeVars, agentVars, storeVars, runCycleVars, runChecksVars, dbVars>>

EngineIdle == RunCycleIdle /\ RunChecksIdle /\ DbIdle /\ StatusIdle

-----------------------------------------------------------------------------
(***************************************************************************)
(* The specifications.                                                     *)
(***************************************************************************)

\* The Store, written by insert_check and swept by the retention loop.
Init == StoreIdle /\ ProbeIdle /\ AgentIdle /\ EngineIdle

Next ==
    \/ InsertCheck
    \/ SweepCutoff
    \/ SweepDelete
    \/ Tick

Spec == Init /\ [][Next]_vars

\* The Store as the queries meet it: any records inserted at any times.  The
\* queries never read an id, so the tables a sweep leaves are met as well, as
\* the tables of fewer inserts.
InitQuery == Init

NextQuery ==
    \/ InsertCheck
    \/ Tick

SpecQuery == InitQuery /\ [][NextQuery]_vars

\* GET /api/status with any `hours` parameter, on the collector as started.
InitHours ==
    /\ StoreIdle /\ ProbeIdle /\ AgentIdle
    /\ RunCycleIdle /\ RunChecksIdle /\ DbIdle
    /\ st \in {StatusReq("idle", a, 0, 0, {}, {}, {}) : a \in HoursArgSet}

NextHours ==
    \/ StatusLatest
    \/ StatusParams
    \/ StatusReturn

SpecHours == InitHours /\ [][NextHours]_vars

\* GET /api/status (no parameter) while outcomes are inserted and the
\* retention loop sweeps.
InitStatus == Init

NextStatus ==
    \/ InsertCheck
    \/ SweepCutoff
    \/ SweepDelete
    \/ Tick
    \/ StatusLatest
    \/ StatusParams
    \/ StatusHistory
    \/ StatusReturn

SpecStatus == InitStatus /\ [][NextStatus]_vars

\* The ingest endpoint; api_key is configured or not.
InitIngest == InitStore /\ apiKey \in {"k1", NULL} /\ ProbeIdle /\ AgentIdle /\ EngineIdle

\* The request handler alone, while time passes.
NextIngest ==
    \/ IngestBegin
    \/ IngestEntry
    \/ IngestReturn
    \/ Tick

SpecIngest == InitIngest /\ [][NextIngest]_vars

InitAgent == AgentIdle /\ ProbeIdle /\ StoreIdle /\ EngineIdle

NextAgent == RunCycle \/ Post \/ Sleep \/ NextCycle

SpecAgent == InitAgent /\ [][NextAgent]_vars

InitProbe ==
    /\ target \in TargetSet
    /\ ev \in EventSet
    /\ agentOut = NoOutcome
    /\ appOut = NoOutcome
    /\ AgentIdle
    /\ StoreIdle
    /\ EngineIdle

NextProbe == AgentRunTarget \/ AppCheckTarget

SpecProbe == InitProbe /\ [][NextProbe]_vars

\* One cycle of the agent, under any configuration.
InitRunCycle ==
    /\ cfg \in ConfigSet
    /\ rcPc = "idle"
    /\ rt = <<>>
    /\ rcResults = <<>>
    /\ completed = <<>>
    /\ RunChecksIdle /\ DbIdle /\ StatusIdle
    /\ ProbeIdle /\ AgentIdle /\ StoreIdle

NextRunCycle ==
    \/ RunCycleBegin
    \/ TaskEnter
    \/ TaskLeave
    \/ Collect
    \/ RunCycleReturn

SpecRunCycle == InitRunCycle /\ [][NextRunCycle]_vars

\* The agent from its start: cycle after cycle, each followed by its send.
InitMainLoop == InitRunCycle /\ cfg \in MainLoopConfigSet

NextMainLoop ==
    \/ MainRunCycle
    \/ TaskEnter
    \/ TaskLeave
    \/ Collect
    \/ RunCycleReturn
    \/ MainSendBatch
    \/ MainSendReturns
    \/ NextCycle

SpecMainLoop == InitMainLoop /\ [][NextMainLoop]_vars

\* The cycle on a running event loop: a task that can take a step takes it in
\* the end (every probe ends, by its answer or its timeout; the loop schedules
\* every ready task).  The targets are of a type probed in a worker thread
\* (ping) or on the loop, where the probe may raise (dns).
FairConfigSet ==
    [concurrency : 0..MaxConcurrency,
     targets : UNION {[1..n -> {"ping", "dns"}] : n \in 0..MaxTargets}]

InitRunCycleFair == InitRunCycle /\ cfg \in FairConfigSet

SpecRunCycleFair == InitRunCycleFair /\ [][NextRunCycle]_vars /\ WF_vars(NextRunCycle)

\* The standalone collector from its start, under any configuration.
InitRunChecks ==
    /\ cfg \in AppConfigSet
    /\ rcPc = "idle"
    /\ rt = <<>>
    /\ rcResults = <<>>
    /\ completed = <<>>
    /\ RunChecksIdle /\ DbIdle /\ StatusIdle
    /\ ProbeIdle /\ AgentIdle /\ StoreIdle

NextRunChecks ==
    \/ MainStartsThreads
    \/ RunChecksBegin
    \/ ProbeStart
    \/ ProbeEnd
    \/ GatherDone
    \/ StoreResult
    \/ RunChecksEnd
    \/ MonitorWakes

SpecRunChecks == InitRunChecks /\ [][NextRunChecks]_vars

\* The standalone collector with ping targets, or with one dns target, whose
\* probe returns or raises, while insert_check may fail.
PersistConfigSet ==
    [concurrency : {MaxConcurrency},
     targets : {[i \in 1..n |-> "ping"] : n \in 0..MaxTargets} \cup {<<"dns">>}]

InitPersist ==
    /\ cfg \in PersistConfigSet
    /\ rcPc = "idle"
    /\ rt = <<>>
    /\ rcResults = <<>>
    /\ completed = <<>>
    /\ RunChecksIdle /\ DbIdle /\ StatusIdle
    /\ ProbeIdle /\ AgentIdle /\ StoreIdle

SpecPersist == InitPersist /\ [][NextRunChecks]_vars

\* The Store and the threads that use it, while time passes.
InitDb == StoreIdle /\ ProbeIdle /\ AgentIdle /\ EngineIdle

NextDb ==
    \/ DbCall
    \/ DbAcquire
    \/ DbExecute
    \/ DbRelease
    \/ Tick

SpecDb == InitDb /\ [][NextDb]_vars

-----------------------------------------------------------------------------
(***************************************************************************)
(* The claims.                                                             *)
(***************************************************************************)

StatusFollowsOutcome(o) ==
    o.done =>
        /\ o.status = "online" <=> (o.success /\ o.latency <= 500 * 1000)
        /\ o.status = "degraded" <=> (o.success /\ o.latency > 500 * 1000)
        /\ o.status = "offline" <=> ~o.success

\* C1 (SpecProbe): for every probe outcome of every protocol, in the agent cycle
\* and in the standalone collector cycle, status is online iff the probe
\* succeeded with latency <= 500 ms, degraded iff it succeeded with latency
\* > 500 ms, offline iff it did not succeed.
C1_StatusFromSuccessAndLatency ==
    StatusFollowsOutcome(agentOut) /\ StatusFollowsOutcome(appOut)

\* A dns probe that succeeded in 500.004 ms: degraded in both engines, though
\* the outcome's latency_ms reads 500.0.
C1_Witness ==
    /\ agentOut.done /\ appOut.done
    /\ target.type = "dns"
    /\ agentOut.status = "degraded" /\ appOut.status = "degraded"
    /\ agentOut.latency_ms = 50000

SameKey(r, q) == r.agent_id = q.agent_id /\ r.target_name = q.target_name

\* C2 (Spec): after any sequence of inserts and sweeps, get_latest_statuses
\* returns rows of the Store only, exactly one for each (agent_id, target_name)
\* present, and that one has the largest id of the pair, whatever the timestamps.
C2_LatestIsMaxIdPerKey ==
    LET L == get_latest_statuses(checks)
    IN  /\ L \subseteq checks
        /\ \A r \in checks :
             /\ Cardinality({l \in L : SameKey(l, r)}) = 1
             /\ \A l \in L : SameKey(l, r) => l.id >= r.id

\* After a sweep: two keys in the Store, and one key's newest row carries an
\* older timestamp than a row inserted before it.
C2_Witness ==
    /\ sweep.ran
    /\ \E r, q, o \in checks :
         /\ SameKey(r, q) /\ r.id < q.id
         /\ TextLess(q.timestamp, r.timestamp)
         /\ ~SameKey(o, r)
         /\ q \in get_latest_statuses(checks)
         /\ r \notin get_latest_statuses(checks)

\* C3 (Spec): for any Store contents and any (agent_id, target_name, limit),
\* get_recent_history returns at most limit records, all of the requested
\* (agent_id, target_name), oldest first.
C3_RecentWindowShape ==
    \A a \in AgentIdSet, t \in {"t1", "t2"}, limit \in 0..MaxLimit :
        \A s \in recent_rows(checks, a, t, limit) :
            /\ Len(s) <= limit
            /\ \A i \in 1..Len(s) :
                 s[i] \in checks /\ s[i].agent_id = a /\ s[i].target_name = t
            /\ \A i, j \in 1..Len(s) :
                 i < j => fromisoformat(s[i].timestamp) <= fromisoformat(s[j].timestamp)

\* Three rows of one key, the one inserted last carrying the oldest timestamp,
\* asked for with limit 2: the two others come back.
C3_Witness ==
    \E r, q, o \in checks :
        /\ SameKey(r, q) /\ SameKey(q, o)
        /\ r.id < q.id /\ q.id < o.id
        /\ TextLess(o.timestamp, q.timestamp) /\ TextLess(o.timestamp, r.timestamp)
        /\ \E s \in recent_rows(checks, r.agent_id, r.target_name, 2) :
             Len(s) = 2 /\ s[1] # o /\ s[2] # o

\* C4 (Spec): the sweep's DELETE, with cutoff = now - horizon taken when the
\* loop computed it, removes every row whose timestamp is before the cutoff and
\* no other row, whatever was inserted since the cutoff was computed; and no
\* other step removes a row.
C4_SweepRemovesAllAndOnlyOld ==
    [][ /\ (spc = "delete" /\ spc' = "sleep") =>
             /\ checks' \subseteq checks
             /\ \A r \in checks :
                  r \notin checks' <=> fromisoformat(r.timestamp) < sweep.cutoff
        /\ ~(spc = "delete" /\ spc' = "sleep") => checks \subseteq checks'
      ]_vars

\* A DELETE that removed a row and kept one, after an insert had come between
\* the cutoff's computation and the DELETE.
C4_Witness ==
    /\ spc = "sleep"
    /\ sweep.raced
    /\ sweep.removed > 0
    /\ checks # {}

\* C5 as stated (Spec): a second sweep in a row, with no write in between,
\* leaves the Store as the first sweep left it.
C5_SecondSweepIsNoOp == sweep.second => sweep.removed = 0

\* C5 amended (Spec): a second sweep in a row, with no write in between, removes
\* exactly the rows whose timestamp lies between the first sweep's cutoff
\* (included) and its own (excluded): the rows that crossed the horizon while
\* the loop slept.
C5_SecondSweepRemovesTheAged ==
    [][ (spc = "delete" /\ spc' = "sleep" /\ sweep.ran /\ sweep.clean) =>
            /\ checks' \subseteq checks
            /\ \A r \in checks :
                 r \notin checks' <=>
                     /\ sweep.prev <= fromisoformat(r.timestamp)
                     /\ fromisoformat(r.timestamp) < sweep.cutoff
      ]_vars

\* A second sweep in a row that removed a row.
C5_Witness == sweep.second /\ sweep.removed > 0

\* C6 (SpecIngest): an authorized request whose list holds N entries, exactly
\* one of them malformed, adds N-1 rows and is answered received = N-1.
C6_OneMalformedOfN ==
    (req.pc = "done" /\ resp.code = 200 /\ req.malformed = 1) =>
        /\ req.added = req.n - 1
        /\ resp.received = req.n - 1

\* The collector of C7: 500 to the first four POSTs of a call, 200 to the fifth.
AnswersAsScripted ==
    \A i \in 1..Len(posts) : posts[i].answer = IF i <= 4 THEN 500 ELSE 200

\* C7 (SpecAgent): when the collector answers 500 to the first 4 attempts and
\* 200 to the 5th, send_batch makes exactly 5 attempts, sleeps 1, 2, 4, 8
\* seconds between them, in that order, and returns True.
C7_FourFailuresThenSuccess ==
    (apc = "wait" /\ AnswersAsScripted) =>
        /\ Len(posts) = 5
        /\ sleeps = <<1, 2, 4, 8>>
        /\ sent[Len(sent)] = [cycle |-> cycle, ok |-> TRUE]

C7_Witness ==
    /\ apc = "wait"
    /\ AnswersAsScripted
    /\ Len(posts) = 5
    /\ Len(sleeps) = 4

\* C8 (SpecAgent): send_batch ends after at most 5 attempts: no attempt follows
\* a 200, it returns True at the first 200 and False iff all 5 attempts
\* failed, and every POST carries the batch of the cycle it is made in (a batch
\* that could not be sent is not sent by a later cycle).
C8_AtMostFiveAttempts ==
    /\ Len(posts) <= 5
    /\ apc \in {"post", "sleep"} => attempt < 5
    /\ \A i \in 1..Len(posts) : i < Len(posts) => posts[i].answer # 200
    /\ \A i \in 1..Len(posts) : posts[i].batch = cycle /\ posts[i].cycle = cycle
    /\ Len(sent) <= cycle
    /\ apc \in {"wait", "cycle"} /\ cycle > 0 =>
         /\ Len(sent) = cycle
         /\ sent[cycle].cycle = cycle
         /\ sent[cycle].ok <=> posts[Len(posts)].answer = 200
         /\ ~sent[cycle].ok <=>
              (Len(posts) = 5 /\ \A i \in 1..5 : posts[i].answer # 200)

\* The cycle after one whose batch was given up is posting its own batch.
C8_Witness ==
    /\ cycle = 2
    /\ ~sent[1].ok
    /\ Len(posts) = 3

BadKey(key) == key = NULL \/ key # apiKey

\* C9 (SpecIngest): a request whose X-API-Key is absent or differs from the
\* configured key is answered 401 whatever its payload, and adds nothing to
\* the Store.
C9_BadKeyIs401 ==
    [][ (req.pc \in {"idle", "done"} /\ req' # req /\ BadKey(req'.key)) =>
            /\ req'.pc = "done"
            /\ resp'.code = 401
            /\ checks' = checks
            /\ nextId' = nextId
      ]_vars

\* A well-formed batch refused for its key, the Store holding rows.
C9_Witness ==
    /\ req.pc = "done"
    /\ req.key = "k2"
    /\ req.payload = ListPayload
    /\ resp.code = 401
    /\ checks # {}

ValidKey(key) == key # NULL /\ key # "" /\ key = apiKey

\* C10 (SpecIngest): with a valid key, a payload that is missing or has no
\* `checks` entry is answered 400 and adds nothing; a payload with a `checks`
\* list is answered 200.
C10_PayloadValidation ==
    (req.pc = "done" /\ ValidKey(req.key)) =>
        /\ (req.payload.type = "null" \/ ~req.payload.has_checks) =>
               resp.code = 400 /\ req.added = 0
        /\ req.payload = ListPayload => resp.code = 200

\* C11 (SpecRunCycle): during a cycle, for any number of targets, the probes
\* running at the same time (those in worker threads included) are never more
\* than the configured concurrency; the other tasks wait at the semaphore.
C11_InFlightWithinConcurrency == Cardinality(InFlight) <= cfg.concurrency

\* As many probes running as the limit allows, one of them a ping in its
\* worker thread, and a third target waiting at the semaphore.
C11_Witness ==
    /\ cfg.concurrency = 2
    /\ Cardinality(InFlight) = 2
    /\ \E i \in InFlight : cfg.targets[i] = "ping"
    /\ \E i \in DOMAIN rt : rt[i].pc = "created"

\* C12 (SpecRunCycle): in the agent's cycle a probe that raises instead of
\* returning becomes an offline outcome of its target, carrying the failure
\* text, and the cycle still ends with an outcome for every target: run_cycle
\* is never left by an exception.
C12_RaisingProbeBecomesOffline ==
    /\ rcPc # "aborted"
    /\ \A i \in DOMAIN rt :
         rt[i].pc = "collected" =>
             \E k \in 1..Len(rcResults) :
                 /\ rcResults[k].target_name = TargetName(i)
                 /\ rcResults[k].status \in {"online", "degraded", "offline"}

\* C13 (SpecRunChecks): in the collector process at most one cycle is in
\* progress at any moment, main's initial run_checks and the monitoring
\* thread's cycles included.
C13_CyclesNeverOverlap == Cardinality(InCycle) <= 1

\* C14 (SpecDb): under any interleaving of ingest inserts, cycle inserts,
\* sweeps and queries, a thread that is executing a write (insert or delete)
\* is the only thread executing any statement on the Store: no second write
\* and no read query runs meanwhile.
C14_WritesAreExclusive ==
    \A a, b \in DbThreads :
        (a # b /\ db[a].pc \in {"in", "done"} /\ db[b].pc \in {"in", "done"}) =>
            ~IsWrite(db[a].op) /\ ~IsWrite(db[b].op)

\* The sweep's DELETE in progress on a Store that holds rows, while an insert
\* and a query wait for the lock.
C14_Witness ==
    /\ db["sweep"].pc = "in"
    /\ db["ingest"].pc = "wait"
    /\ db["query"].pc = "wait" /\ db["query"].op = "history"
    /\ checks # {}

\* What the http probe owes for the event it met.
HttpOutcomeFollowsEvent(o) ==
    (o.done /\ o.type = "http") =>
        /\ o.success <=> (ev.kind = "done" /\ ev.code >= 200 /\ ev.code < 400)
        /\ (ev.kind = "done" /\ ~(ev.code >= 200 /\ ev.code < 400)) =>
               /\ o.error = ErrN("HTTP", ev.code)
               /\ o.details = HttpDetails(ev.code)
        /\ ev.kind = "timeout" => o.error = Err("Timeout")
        /\ ev.kind \notin {"done", "timeout"} => o.error = Err("str(e)")
        /\ o.success => o.error = NoError

\* C15 (SpecProbe): the http probe reports success iff a response is received
\* with status code in [200, 400); any other status code yields failure with
\* error 'HTTP <code>' and details carrying the code, a request timeout yields
\* failure with error 'Timeout', any other transport error yields failure with
\* the error's message; in the agent and in the standalone collector alike.
C15_HttpProbeOutcome ==
    HttpOutcomeFollowsEvent(agentOut) /\ HttpOutcomeFollowsEvent(appOut)

\* A 400 answer, the first code outside the success range, probed by both
\* engines.
C15_Witness ==
    /\ target.type = "http"
    /\ ev.kind = "done" /\ ev.code = 400
    /\ agentOut.done /\ appOut.done
    /\ ~agentOut.success /\ agentOut.error = ErrN("HTTP", 400)
    /\ appOut.details = HttpDetails(400)

\* C16 (SpecAgent): in send_batch a backoff sleep happens only between a failed
\* attempt and the retry that follows it: each of the first four failed
\* attempts is followed by one sleep before the next attempt, and no sleep
\* follows the fifth, final failed attempt, so a call never sleeps more than
\* four times and every sleep taken has been, or is about to be, followed by
\* a retry.
C16_SleepOnlyBeforeARetry ==
    /\ Len(sleeps) <= MaxAttempts - 1
    /\ apc = "post" => Len(sleeps) = Len(posts)
    /\ (apc = "wait" /\ posts # <<>>) => Len(sleeps) = Len(posts) - 1

\* C17 (SpecRunChecks): in a standalone collector cycle the number of probes
\* in flight at the same time never exceeds the configured concurrency bound,
\* whatever the number and mix of configured targets.
C17_ProbesWithinConcurrency ==
    \A th \in Threads : Cardinality(ProbesInFlight(th)) <= cfg.concurrency

\* The thread whose statement is executed in this step, if any.
Executes(th) == db[th].pc = "in" /\ db'[th].pc = "done"

\* C18 (SpecDb): the Store is append-only.  No step changes a field of a
\* stored record (a record of the same id is the same record before and after);
\* an insert keeps every stored record and adds exactly one; the retention
\* sweep removes whole records and adds none; the queries (latest, recent,
\* history) and every other step change nothing.
C18_StoreIsAppendOnly ==
    [][ /\ \A r \in checks, q \in checks' : r.id = q.id => r = q
        /\ \A th \in DbThreads :
             Executes(th) =>
                 /\ db[th].op = "insert" =>
                        checks \subseteq checks' /\ Cardinality(checks' \ checks) = 1
                 /\ db[th].op = "delete" => checks' \subseteq checks
                 /\ db[th].op \in {"latest", "recent", "history"} => checks' = checks
        /\ (\A th \in DbThreads : ~Executes(th)) => checks' = checks
      ]_vars

\* A store that has seen an insert after a sweep removed a record, with a
\* record left for the history query now executed.
C18_Witness ==
    /\ Cardinality(checks) = 2
    /\ nextId = 3
    /\ db["query"].pc = "done" /\ db["query"].op = "history"
    /\ db["query"].got # {}

\* C19 (Spec): sequence ids are unique and strictly increasing in insertion
\* order over the whole life of the Store.  nextId, the AUTOINCREMENT
\* high-water mark, never decreases and bounds every id given so far, whether
\* its record is still stored or was deleted; every inserted record gets an
\* id above it, hence above the id of every record inserted before; and no
\* two stored records share an id, so two records of one (agent_id,
\* target_name) never tie for latest.
C19_IdsUniqueAndIncreasing ==
    [][ /\ nextId' >= nextId
        /\ \A q \in checks' \ checks :
             /\ q.id > nextId
             /\ \A r \in checks : q.id > r.id
        /\ \A r \in checks' : r.id <= nextId'
        /\ \A r, q \in checks' : r.id = q.id => r = q
      ]_vars

\* The only stored record was inserted after the sweep deleted the record
\* with the highest id so far: it has id 2, not 1 again.
C19_Witness ==
    /\ spc = "sleep" /\ sweep.removed = 1 /\ ~sweep.clean
    /\ nextId = 2
    /\ Cardinality(checks) = 1
    /\ \E r \in checks : r.id = 2

\* C20 (SpecIngest): every record in the Store has status online, degraded or
\* offline, after any sequence of authorized ingest requests with arbitrary
\* payloads.
C20_StoredStatusIsOneOfThree ==
    \A r \in checks : r.status \in StatusSet

\* The (agent_id, target_name) pairs present in the Store, and the record of a
\* pair with the maximum sequence id.
KeysOf(tbl) == {<<r.agent_id, r.target_name>> : r \in tbl}
LatestOf(tbl, k) ==
    CHOOSE r \in tbl :
        /\ <<r.agent_id, r.target_name>> = k
        /\ \A q \in tbl : <<q.agent_id, q.target_name>> = k => q.id <= r.id

\* C21 (SpecIngest): the summary query returns total = the number of distinct
\* (agent_id, target_name) pairs in the Store, and online, degraded, offline =
\* the number of pairs whose latest record has that status; consequently
\* online + degraded + offline = total.
C21_SummaryCountsAddUp ==
    LET s == api_summary(checks)
        N(status) == Cardinality({k \in KeysOf(checks) : LatestOf(checks, k).status = status})
    IN  /\ s.total = Cardinality(KeysOf(checks))
        /\ s.online = N("online")
        /\ s.degraded = N("degraded")
        /\ s.offline = N("offline")
        /\ s.online + s.degraded + s.offline = s.total

\* C22 (SpecQuery): get_history(target_name, hours) returns exactly the Store
\* records with that target_name, from all agents, whose timestamp is at or
\* after now - hours, each once, in ascending timestamp order, and no record
\* of another target or with an older timestamp.  Times are compared as times
\* (fromisoformat), the query compares the texts.
C22_HistoryIsTheTargetsWindow ==
    \A t \in {"t1", "t2"}, h \in 0..MaxHours :
        h <= now =>
            \A s \in history_rows(checks, t, isoformat(now - h)) :
                /\ {s[i] : i \in 1..Len(s)} =
                       {r \in checks : /\ r.target_name = t
                                       /\ fromisoformat(r.timestamp) >= now - h}
                /\ \A i, j \in 1..Len(s) :
                       /\ i < j => fromisoformat(s[i].timestamp) <= fromisoformat(s[j].timestamp)
                       /\ i # j => s[i] # s[j]

\* Three records: t1 from two agents, one of them stamped before the cutoff of
\* a one-tick lookback and one exactly at it, and a record of another target.
C22_Witness ==
    /\ now = 3
    /\ \E r, q, p \in checks :
         /\ r.target_name = "t1" /\ r.timestamp = isoformat(0)
         /\ q.target_name = "t1" /\ q.timestamp = isoformat(2) /\ q.agent_id # r.agent_id
         /\ p.target_name = "t2"
         /\ history_rows(checks, "t1", isoformat(now - 1)) = {<<q>>}

\* C23 (SpecQuery): the records get_recent_history(agent_id, target_name, limit)
\* returns are the most recent ones of that key: they are records of the key,
\* no record of the key left out of the result has a timestamp greater than a
\* record in the result, and when the key has at least `limit` records exactly
\* `limit` are returned.
C23_RecentAreTheNewest ==
    \A a \in AgentIdSet, t \in {"t1", "t2"}, n \in 0..MaxLimit :
        \A s \in recent_rows(checks, a, t, n) :
            LET K == {r \in checks : r.agent_id = a /\ r.target_name = t}
                In == {s[i] : i \in 1..Len(s)}
            IN  /\ In \subseteq K
                /\ \A r \in K \ In, q \in In :
                       fromisoformat(r.timestamp) <= fromisoformat(q.timestamp)
                /\ Cardinality(K) >= n => (Len(s) = n /\ Cardinality(In) = n)

\* A key with three records of three different times, the one with the
\* highest id being the oldest: a window of two leaves that one out.
C23_Witness ==
    /\ Cardinality({r \in checks : r.agent_id = "a1" /\ r.target_name = "t1"}) = 3
    /\ \E r \in checks : r.id = 3 /\ r.timestamp = isoformat(0)
    /\ \A s \in recent_rows(checks, "a1", "t1", 2) :
         Len(s) = 2 /\ s[1].timestamp = isoformat(2) /\ s[2].timestamp = isoformat(3)

\* C24 (SpecPersist): a failed persist of a single outcome never stops the
\* standalone scheduler.  When insert_check raises for one outcome the thread
\* stays in the storing loop of run_checks, and a cycle ends only when every
\* outcome of the cycle has been processed (stored, or dropped by a failed
\* persist); after the cycle main goes on to serve and monitoring_loop to its
\* sleep before the next cycle.
C24_FailedPersistStopsNothing ==
    \A th \in Threads :
        /\ Dropped(th) # {} => ck[th].pc \in {"storing", "serving", "sleep", "loop"}
        /\ (ck[th].pc \in {"serving", "sleep", "loop"} /\ ck[th].cycles > 0) =>
               \A i \in DOMAIN ck[th].tasks : ck[th].tasks[i].pc \in Processed
        /\ (ck[th].pc = "storing" /\ Dropped(th) # {}) => resultsLock = th

\* The monitoring thread in its second cycle, whose first cycle lost the
\* outcome of its first target to a failed persist and stored the two after it.
C24_Witness ==
    /\ Len(cfg.targets) = 3
    /\ ck["main"].pc = "initial"
    /\ ck["monitor"].cycles = 1 /\ ck["monitor"].pc = "probing"
    /\ {r.target_name : r \in checks} = {"t2", "t3"}
    /\ nextId = 2

\* A returned cycle has one outcome per target, the k-th being that of the
\* k-th task to finish.
ReturnedInCompletionOrder ==
    rcPc = "returned" =>
        /\ Len(rcResults) = Len(cfg.targets)
        /\ \A i \in DOMAIN cfg.targets :
             Cardinality({k \in 1..Len(rcResults) :
                             rcResults[k].target_name = TargetName(i)}) = 1
        /\ \A k \in 1..Len(rcResults) :
             rcResults[k].target_name = TargetName(completed[k])

\* C26 (SpecRunCycleFair), as stated: when no probe raises, an agent cycle
\* terminates with a result list that holds exactly one outcome per configured
\* target (every queued target runs in the end), appended in the order the
\* probes completed, not the order of the configuration.
C26_EveryCycleReturns ==
    /\ []ReturnedInCompletionOrder
    /\ <>(rcPc = "returned" \/ rcPc = "aborted")

\* C26 (SpecRunCycleFair), as it holds: the same, for a cycle whose semaphore
\* admits a task: concurrency >= 1, or no targets at all.  With concurrency 0
\* no queued target ever runs and the cycle never ends.
C26_CycleReturnsAllInCompletionOrder ==
    /\ []ReturnedInCompletionOrder
    /\ (cfg.concurrency >= 1 \/ cfg.targets = <<>>) =>
           <>(rcPc = "returned" \/ rcPc = "aborted")

\* A returned cycle of three targets behind a semaphore of one, whose results
\* are in the order t2, t3, t1.
C26_Witness ==
    /\ rcPc = "returned"
    /\ cfg.concurrency = 1
    /\ Len(rcResults) = 3
    /\ rcResults[1].target_name = "t2"
    /\ rcResults[2].target_name = "t3"
    /\ rcResults[3].target_name = "t1"

\* C25 (SpecMainLoop): in the agent main loop each cycle is followed by
\* exactly one send_batch call carrying all and only the outcomes of that cycle
\* together with the agent_id; the send starts only after every probe of the
\* cycle has completed, and the next cycle starts only after that send_batch
\* call has returned, with success or with failure.
C25_OneSendAfterEachCycle ==
    /\ apc = "sending" =>
           /\ rcPc = "returned"
           /\ \A i \in DOMAIN rt : rt[i].pc = "collected"
           /\ results = Payload(cycle, rcResults)
           /\ results.agent_id = AGENT_ID
           /\ Len(results.checks) = Len(cfg.targets)
           /\ \A k \in 1..Len(results.checks) : results.checks[k] = rt[completed[k]].out
    /\ apc \in {"probing", "sending"} => Len(sent) = cycle - 1
    /\ apc \in {"wait", "cycle"} => Len(sent) = cycle
    /\ \A k \in 1..Len(sent) : sent[k].cycle = k
    /\ rcPc = "running" => apc = "probing"

\* The send of the second cycle, three outcomes of which the first to complete
\* was the third target's, under way after the first cycle's send had failed.
C25_Witness ==
    /\ apc = "sending"
    /\ cycle = 2
    /\ sent = <<[cycle |-> 1, ok |-> FALSE]>>
    /\ Len(results.checks) = 3
    /\ results.checks[1].target_name = "t3"

\* The decimal text of an integer, and the texts that are no integer: empty,
\* a lone sign, a sign after the first place, a decimal point.
DigitChar(d) == <<"0", "1", "2", "3", "4", "5", "6", "7", "8", "9">>[d + 1]

RECURSIVE NatText(_)
NatText(n) == IF n < 10 THEN <<DigitChar(n)>> ELSE NatText(n \div 10) \o <<DigitChar(n % 10)>>

IntText(n) == IF n < 0 THEN <<"-">> \o NatText(0 - n) ELSE NatText(n)

IntTexts == [n \in (0 - 99)..999 |-> IntText(n)]

NonIntegerText(text) ==
    \/ text = <<>>
    \/ text = <<"-">>
    \/ \E i \in 1..Len(text) : text[i] = "." \/ (i > 1 /\ text[i] = "-")

\* C27 (SpecHours): in the latest-status snapshot the hours parameter is
\* clamped to [1, 24] for every integer input: a value below 1 gives 1, a
\* value above 24 gives 24, a value between them itself; a missing or
\* non-integer value gives 1; and the recent-window limit used is 60 times the
\* clamped value.
C27_HoursClampedLimitSixtyfold ==
    st.pc \in {"history", "returned"} =>
        /\ st.hours \in 1..24
        /\ st.limit = 60 * st.hours
        /\ ~st.arg.given => st.hours = 1
        /\ st.arg.given =>
               /\ NonIntegerText(st.arg.text) => st.hours = 1
               /\ \A n \in DOMAIN IntTexts :
                      st.arg.text = IntTexts[n] =>
                          st.hours = IF n < 1 THEN 1 ELSE IF n > 24 THEN 24 ELSE n

\* hours=-1: the snapshot is answered with hours 1 and limit 60.
C27_Witness ==
    /\ st.pc = "returned"
    /\ st.arg = Arg(<<"-", "1">>)
    /\ st.hours = 1
    /\ st.limit = 60

\* C28 (SpecProbe): for every outcome a cycle produces, in the agent and in
\* the standalone collector, error is null exactly when the probe succeeded:
\* an online or degraded outcome has a null error and an offline outcome has
\* an error text, for the four probe types and for a type outside them.
C28_ErrorNullIffSuccess ==
    \A o \in {agentOut, appOut} :
        o.done =>
            /\ (o.error = NoError) <=> o.success
            /\ o.status \in {"online", "degraded"} => o.error = NoError
            /\ o.status = "offline" => o.error # NoError

\* An entry of the snapshot whose window holds rows, and one whose window ends
\* with the row reported as current (as the answer shows them: by status and
\* timestamp).
WindowNonEmpty(entry) == entry.history # <<>>

CurrentIsNewest(entry) ==
    /\ entry.history # <<>>
    /\ LET last == entry.history[Len(entry.history)]
       IN  /\ last.status = entry.current.status
           /\ last.timestamp = entry.current.timestamp

\* C29 (SpecStatus): the latest-status snapshot is consistent for every key it
\* lists, under any interleaving with inserts and the retention sweep: the
\* key's recent window is non-empty and its last (newest) entry is the record
\* reported as the key's current outcome.
C29_SnapshotConsistent ==
    st.pc = "returned" =>
        \A entry \in st.targets : WindowNonEmpty(entry) /\ CurrentIsNewest(entry)

\* C30 (SpecIngest): ingest keeps the order of the batch: the records of one
\* request get their ids in the order of the entries of the list, so after the
\* request the latest record of a key is the one stored for the last valid
\* entry of that target in the list (no other insert running).
C30_LatestIsLastValidEntry ==
    (req.pc = "done" /\ resp.code = 200) =>
        \A i \in req.last_valid : \E r \in get_latest_statuses(checks) : r.id = i

=============================================================================
